---- MODULE Spec2Model ----
(***************************************************************************)
(* One invocation of vt_driver.py: the command line is parsed, the API key *)
(* is read from the configuration file, the API client is constructed and  *)
(* main() dispatches on the sub-command to one handler.                    *)
(*                                                                         *)
(* Strings are sequences of characters (a character is a TLA+ string that  *)
(* stands for one or several code points), so that ','.join, '\n'.join,    *)
(* os.path.join, os.path.expanduser and json.dumps are modelled by what    *)
(* they do to the text.  The outside world the program acts on (delegated  *)
(* client calls, standard output, standard error, files written) is the    *)
(* ordered log `events`.                                                   *)
(***************************************************************************)
EXTENDS Integers, Sequences, FiniteSets, TLC

VARIABLES pc, conf, args, api_key, virus_total, response, events, exitcode

vars == <<pc, conf, args, api_key, virus_total, response, events, exitcode>>

(* ------------------------------ bounds --------------------------------- *)

\* every list over the items up to this length is an input
ShortLen == 2

\* longest list argument given on the command line
MaxListLen == 27

(* ------------------------- program constants --------------------------- *)

\* check_num_args: len(args) > 25
MaxArgs == 25

\* json.dumps(..., indent=4)
IndentWidth == 4

None == <<"None">>

(* ------------------------------ strings -------------------------------- *)

RECURSIVE Concat(_)
\* the concatenation of a sequence of strings
Concat(ss) == IF ss = <<>> THEN <<>> ELSE Head(ss) \o Concat(Tail(ss))

\* str.join with the arguments reversed: a plausible slip
JoinReversed(sep, list) ==
    LET n == Len(list)
        rev == [i \in 1..n |-> list[n + 1 - i]]
    IN  Concat([i \in 1..n |-> IF i = 1 THEN rev[i] ELSE sep \o rev[i]])

\* sep.join(list)
Join(sep, list) ==
    Concat([i \in 1..Len(list) |-> IF i = 1 THEN list[i] ELSE sep \o list[i]])

Comma == <<",">>
Newline == <<"LF">>

\* os.path.join(a, b) on a POSIX system
os_path_join(a, b) ==
    IF b # <<>> /\ b[1] = "/" THEN b
    ELSE IF a = <<>> \/ a[Len(a)] = "/" THEN a \o b
    ELSE a \o <<"/">> \o b

\* the home directory of the user running the tool
Home == <<"/", "home">>

\* os.path.expanduser(p) for p = "~" or "~/..."
expanduser(p) ==
    IF p # <<>> /\ p[1] = "~" /\ (Len(p) = 1 \/ p[2] = "/")
    THEN Home \o Tail(p)
    ELSE p

(* --------------------------- response values --------------------------- *)

\* a JSON number or string, by the text json.dumps emits for it
JScalar(t) == [type |-> "scalar", tok |-> t]

\* a dict in insertion order: a sequence of key/value items with distinct keys
JDict(items) == [type |-> "dict", items |-> items]

\* a raw byte payload (response.content)
Bytes(data) == [type |-> "bytes", data |-> data]

\* the keys of the client's result dicts, in the order Python compares str
KeysInOrder == <<"error", "response_code">>

Keys == {KeysInOrder[i] : i \in DOMAIN KeysInOrder}

KeyRank(k) == CHOOSE i \in DOMAIN KeysInOrder : KeysInOrder[i] = k

\* the dicts (every insertion order) with keys in Keys and values in V
DictsOver(V) ==
    UNION { { JDict(s) : s \in { t \in [1..n -> [k : Keys, v : V]] :
                                   \A i, j \in 1..n : i # j => t[i].k # t[j].k } }
            : n \in 0..Cardinality(Keys) }

Scalars == {JScalar("0"), JScalar("1")}

InnerDicts == DictsOver({JScalar("0")})

\* what a client call returns as its JSON result, and what get_file and
\* get_network_traffic return on failure ("Will return a dict on failure")
DictResponses == DictsOver(Scalars \cup InnerDicts)

\* what get_file / get_network_traffic return on success: response.content
BytesResponses == {Bytes(<<"x00">>), Bytes(<<"x7b", "x7d">>)}

\* the failure test narrowed to the dicts that carry an "error" key
is_dict_error_only(resp) ==
    resp.type = "dict" /\ \E i \in DOMAIN resp.items : resp.items[i].k = "error"

\* type(response) is dict
is_dict(resp) == resp.type = "dict"

(* ------------------------------ json.dumps ----------------------------- *)

\* sort_keys left out: the items in insertion order
unsorted_items(items) == items

RECURSIVE insert_item(_, _)
insert_item(it, sorted) ==
    IF sorted = <<>> THEN <<it>>
    ELSE IF KeyRank(it.k) < KeyRank(Head(sorted).k) THEN <<it>> \o sorted
    ELSE <<Head(sorted)>> \o insert_item(it, Tail(sorted))

RECURSIVE sort_from(_, _)
sort_from(items, acc) ==
    IF items = <<>> THEN acc ELSE sort_from(Tail(items), insert_item(Head(items), acc))

\* sort_keys=True: the items of a dict ordered by key
sorted_items(items) == sort_from(items, <<>>)

\* the indentation of nesting level `level`: level * indent spaces
Indent(level) == [i \in 1..(level * IndentWidth) |-> " "]

RECURSIVE dumps(_, _)
\* json.dumps(v, sort_keys=True, indent=4), for a value at nesting level `level`
\* (the separators of Python 3: ',' at the end of a line, ': ' after a key)
dumps(v, level) ==
    IF v.type = "scalar" THEN <<v.tok>>
    ELSE IF v.items = <<>> THEN <<"{", "}">>
    ELSE LET its == sorted_items(v.items)
             n == Len(its)
             line(i) == Indent(level + 1) \o <<"\"", its[i].k, "\"", ":", " ">>
                        \o dumps(its[i].v, level + 1)
                        \o (IF i < n THEN <<",">> ELSE <<>>) \o Newline
         IN  <<"{">> \o Newline \o Concat([i \in 1..n |-> line(i)])
             \o Indent(level) \o <<"}">>

(* ------------------------------- events -------------------------------- *)

\* a delegated call virus_total.<op>(arg) and the value it returned
Call(op, arg, result) == [type |-> "call", op |-> op, arg |-> arg, result |-> result]

\* text printed to sys.stdout
Stdout(text) == [type |-> "stdout", text |-> text]

\* a line on sys.stderr: the prefix, the message format and the value formatted in
Stderr(prefix, fmt, arg) == [type |-> "stderr", prefix |-> prefix, fmt |-> fmt, arg |-> arg]

\* open(path, 'wb') ... write(data): the payload written to the file
Write(path, data) == [type |-> "write", path |-> path, data |-> data]

(* ------------------------------- inputs -------------------------------- *)

\* -c/--config: the default '~/.vtapi' or a path given on the command line
ConfigPaths == {<<"~", "/", ".vtapi">>, <<"c", "f", "g">>}

\* the states the configuration file can be in when the tool starts
ConfStates == {"missing", "nosection", "nooption", "ok"}

\* the value of apikey in section vt of a complete configuration file
ApiKey == <<"k", "e", "y">>

\* MD5/SHA1/SHA256 digests: hexadecimal strings
Hashes == {<<"a">>, <<"b", "1">>}

\* os.getcwd(), the default of -o/--output-dir
Cwd == <<"/", "w">>

\* the directories that exist
ExistingDirs == {Cwd, <<"o", "/">>}

\* the values given for -o/--output-dir
OutputDirs == ExistingDirs \cup {<<"n", "o">>}

\* the list of length n that repeats the items cyclically
Cycle(items, n) == [i \in 1..n |-> items[((i - 1) % Len(items)) + 1]]

\* nargs='+': the non-empty lists given on the command line
ArgLists(items) ==
    UNION { [1..n -> {items[i] : i \in DOMAIN items}] : n \in 1..ShortLen }
    \cup { Cycle(items, n) : n \in (ShortLen + 1)..MaxListLen }

HashLists == ArgLists(<<<<"a">>, <<"b", "1">>>>)

UrlLists == ArgLists(<<<<"u">>, <<"v", ".", "w">>>>)

\* the sub-commands whose argument is a list
ListCommands == {"rescan", "file-report", "url-scan", "url-report"}

\* the eleven sub-commands
Commands == {"file-scan", "rescan", "file-report", "behaviour", "pcap", "search",
             "download", "url-scan", "url-report", "ip-report", "domain-report"}

\* args.command when no sub-command is given (Python 3 argparse)
NoCommand == "None"

\* the namespaces parse_args() can return
ArgSets ==
    [command : {"file-scan"}, config : ConfigPaths, file : {<<"f">>}]
    \cup [command : {"rescan", "file-report"}, config : ConfigPaths, hash : HashLists]
    \cup [command : {"behaviour"}, config : ConfigPaths, hash : Hashes]
    \cup [command : {"pcap", "download"}, config : ConfigPaths, hash : Hashes,
          output_dir : OutputDirs]
    \cup [command : {"search"}, config : ConfigPaths, query : {<<"q">>}]
    \cup [command : {"url-scan", "url-report"}, config : ConfigPaths, url : UrlLists]
    \cup [command : {"ip-report"}, config : ConfigPaths, ip : {<<"1", ".", "2">>}]
    \cup [command : {"domain-report"}, config : ConfigPaths, domain : {<<"d", ".", "e">>}]
    \cup [command : {NoCommand}, config : ConfigPaths]

(* ---------------------------- the functions ---------------------------- *)

\* the effects of the running process so far: w.exited once sys.exit(1) ran
World == [events |-> events, response |-> response, exited |-> FALSE]

\* error(*args): print 'ERROR:' and the message to stderr, then sys.exit(1)
error(w, fmt, arg) ==
    [w EXCEPT !.events = Append(@, Stderr("ERROR:", fmt, arg)), !.exited = TRUE]

\* an exception nothing catches: the traceback on stderr, exit status 1
uncaught(w, exc) ==
    [w EXCEPT !.events = Append(@, Stderr("Traceback", exc, <<>>)), !.exited = TRUE]

\* print(json.dumps(json_data, sort_keys=True, indent=4), file=sys.stdout)
pretty_print_json(w, json_data) ==
    [w EXCEPT !.events = Append(@, Stdout(dumps(json_data, 0) \o Newline))]

\* response = virus_total.<op>(arg)
delegate(w, op, arg, resp) ==
    [w EXCEPT !.events = Append(@, Call(op, arg, resp)), !.response = resp]

\* check_num_args with the ceiling itself refused (>= for >)
check_num_args_off_by_one(w, list) ==
    IF Len(list) >= MaxArgs
    THEN error(w, "The VT Private API only allows a maximum of 25 arguments", <<>>)
    ELSE w

\* check_num_args that refuses every list
check_num_args_any(w, list) ==
    IF Len(list) > 0
    THEN error(w, "The VT Private API only allows a maximum of 25 arguments", <<>>)
    ELSE w

check_num_args(w, list) ==
    IF Len(list) > MaxArgs
    THEN error(w, "The VT Private API only allows a maximum of 25 arguments", <<>>)
    ELSE w

\* os.path.isdir that accepts every path
isdir_always(dir) == TRUE

\* os.path.isdir(output_dir)
isdir(dir) == dir \in ExistingDirs

\* one delegated call, then pretty_print_json(response)
call_and_print(w, op, arg, resp) ==
    LET w1 == delegate(w, op, arg, resp) IN pretty_print_json(w1, w1.response)

file_scan(w, file_to_scan, resp) == call_and_print(w, "scan_file", file_to_scan, resp)

file_rescan(w, hash_list, resp) ==
    LET w1 == check_num_args(w, hash_list)
    IN  IF w1.exited THEN w1
        ELSE call_and_print(w1, "rescan_file", Join(Comma, hash_list), resp)

\* file_report that asks for the report twice
file_report_twice(w, hash_list, resp) ==
    LET w1 == check_num_args(w, hash_list)
        arg == Join(Comma, hash_list)
    IN  IF w1.exited THEN w1
        ELSE call_and_print(delegate(w1, "get_file_report", arg, resp),
                            "get_file_report", arg, resp)

file_report(w, hash_list, resp) ==
    LET w1 == check_num_args(w, hash_list)
    IN  IF w1.exited THEN w1
        ELSE call_and_print(w1, "get_file_report", Join(Comma, hash_list), resp)

file_behaviour(w, hash_, resp) == call_and_print(w, "get_file_behaviour", hash_, resp)

network_traffic(w, hash_, output_dir, resp) ==
    IF ~isdir(output_dir)
    THEN error(w, "'{}' is not a valid output directory", output_dir)
    ELSE LET w1 == delegate(w, "get_network_traffic", hash_, resp)
         IN  IF is_dict(w1.response)
             THEN pretty_print_json(w1, w1.response)
             ELSE [w1 EXCEPT !.events =
                      Append(@, Write(os_path_join(output_dir, hash_ \o <<".pcap">>),
                                      w1.response))]

\* search that prints nothing
search_silent(w, query, resp) == delegate(w, "file_search", query, resp)

search(w, query, resp) == call_and_print(w, "file_search", query, resp)

\* file_download that asks for the report before it writes the file
file_download_report_first(w, hash_, output_dir, resp, report) ==
    IF ~isdir(output_dir)
    THEN error(w, "'{}' is not a valid output directory", output_dir)
    ELSE LET w1 == delegate(w, "get_file", hash_, resp)
         IN  IF is_dict(w1.response)
             THEN pretty_print_json(w1, w1.response)
             ELSE LET w2 == file_report(w1, <<hash_>>, report)
                  IN  IF w2.exited THEN w2
                      ELSE [w2 EXCEPT !.events =
                              Append(@, Write(os_path_join(output_dir, hash_), resp))]

file_download(w, hash_, output_dir, resp, report) ==
    IF ~isdir(output_dir)
    THEN error(w, "'{}' is not a valid output directory", output_dir)
    ELSE LET w1 == delegate(w, "get_file", hash_, resp)
         IN  IF is_dict(w1.response)
             THEN pretty_print_json(w1, w1.response)
             ELSE LET w2 == [w1 EXCEPT !.events =
                                Append(@, Write(os_path_join(output_dir, hash_),
                                                w1.response))]
                  IN  file_report(w2, <<hash_>>, report)

url_scan(w, url_list, resp) ==
    LET w1 == check_num_args(w, url_list)
    IN  IF w1.exited THEN w1
        ELSE call_and_print(w1, "scan_url", Join(Newline, url_list), resp)

url_report(w, url_list, resp) ==
    LET w1 == check_num_args(w, url_list)
    IN  IF w1.exited THEN w1
        ELSE call_and_print(w1, "get_url_report", Join(Newline, url_list), resp)

ip_report(w, ip_address, resp) == call_and_print(w, "get_ip_report", ip_address, resp)

domain_report(w, domain_name, resp) ==
    call_and_print(w, "get_domain_report", domain_name, resp)

\* parse_config(conf_file): the API key, or the process ends
parse_config_fn(w, conf_file) ==
    CASE conf = "missing" -> error(w, "Config file '{}' does not exist", conf_file)
      [] conf = "nosection" -> uncaught(w, "configparser.NoSectionError: No section: 'vt'")
      [] conf = "nooption" ->
            uncaught(w, "configparser.NoOptionError: No option 'apikey' in section: 'vt'")
      [] OTHER -> w

(* ------------------------------- actions ------------------------------- *)

Init ==
    /\ pc = "parse_args"
    /\ conf \in ConfStates
    /\ args = [command |-> NoCommand, config |-> <<>>]
    /\ api_key = None
    /\ virus_total = None
    /\ response = [type |-> "none"]
    /\ events = <<>>
    /\ exitcode = 0

\* the process ends: with status 1 after sys.exit(1) or an uncaught exception,
\* with status 0 when main() returns
Finish(w) ==
    /\ events' = w.events
    /\ response' = w.response
    /\ pc' = "exited"
    /\ exitcode' = IF w.exited THEN 1 ELSE 0
    /\ UNCHANGED <<conf, args, api_key, virus_total>>

\* args = parse_args()
parse_args ==
    /\ pc = "parse_args"
    /\ args' \in ArgSets
    /\ pc' = "parse_config"
    /\ UNCHANGED <<conf, api_key, virus_total, response, events, exitcode>>

\* config_file = os.path.expanduser(args.config); api_key = parse_config(config_file)
parse_config ==
    /\ pc = "parse_config"
    /\ LET w == parse_config_fn(World, expanduser(args.config))
       IN  IF w.exited THEN Finish(w)
           ELSE /\ api_key' = ApiKey
                /\ pc' = "client"
                /\ UNCHANGED <<conf, args, virus_total, response, events, exitcode>>

\* if api_key is None: error(...); virus_total = VTPrivateAPI(api_key)
main_client ==
    /\ pc = "client"
    /\ IF api_key = None
       THEN Finish(error(World, "An API key must be specified in '{}'",
                         expanduser(args.config)))
       ELSE /\ virus_total' = <<"PrivateApi">> \o api_key
            /\ pc' = "dispatch"
            /\ UNCHANGED <<conf, args, api_key, response, events, exitcode>>

main_file_scan ==
    /\ pc = "dispatch" /\ args.command = "file-scan"
    /\ \E resp \in DictResponses : Finish(file_scan(World, args.file, resp))

main_rescan ==
    /\ pc = "dispatch" /\ args.command = "rescan"
    /\ \E resp \in DictResponses : Finish(file_rescan(World, args.hash, resp))

main_file_report ==
    /\ pc = "dispatch" /\ args.command = "file-report"
    /\ \E resp \in DictResponses : Finish(file_report(World, args.hash, resp))

main_behaviour ==
    /\ pc = "dispatch" /\ args.command = "behaviour"
    /\ \E resp \in DictResponses : Finish(file_behaviour(World, args.hash, resp))

main_pcap ==
    /\ pc = "dispatch" /\ args.command = "pcap"
    /\ \E resp \in DictResponses \cup BytesResponses :
          Finish(network_traffic(World, args.hash, args.output_dir, resp))

main_search ==
    /\ pc = "dispatch" /\ args.command = "search"
    /\ \E resp \in DictResponses : Finish(search(World, args.query, resp))

main_download ==
    /\ pc = "dispatch" /\ args.command = "download"
    /\ \E resp \in DictResponses \cup BytesResponses, report \in DictResponses :
          Finish(file_download(World, args.hash, args.output_dir, resp, report))

main_url_scan ==
    /\ pc = "dispatch" /\ args.command = "url-scan"
    /\ \E resp \in DictResponses : Finish(url_scan(World, args.url, resp))

main_url_report ==
    /\ pc = "dispatch" /\ args.command = "url-report"
    /\ \E resp \in DictResponses : Finish(url_report(World, args.url, resp))

main_ip_report ==
    /\ pc = "dispatch" /\ args.command = "ip-report"
    /\ \E resp \in DictResponses : Finish(ip_report(World, args.ip, resp))

main_domain_report ==
    /\ pc = "dispatch" /\ args.command = "domain-report"
    /\ \E resp \in DictResponses : Finish(domain_report(World, args.domain, resp))

\* no branch of main() matches: main() returns
main_no_command ==
    /\ pc = "dispatch" /\ args.command \notin Commands
    /\ Finish(World)

Next ==
    \/ parse_args
    \/ parse_config
    \/ main_client
    \/ main_file_scan
    \/ main_rescan
    \/ main_file_report
    \/ main_behaviour
    \/ main_pcap
    \/ main_search
    \/ main_download
    \/ main_url_scan
    \/ main_url_report
    \/ main_ip_report
    \/ main_domain_report
    \/ main_no_command

Spec == Init /\ [][Next]_vars

(* ------------------------- reading the event log ----------------------- *)

Calls == SelectSeq(events, LAMBDA e : e.type = "call")

Prints == SelectSeq(events, LAMBDA e : e.type = "stdout")

Errors == SelectSeq(events, LAMBDA e : e.type = "stderr")

Writes == SelectSeq(events, LAMBDA e : e.type = "write")

Exited == pc = "exited"

\* the API client was constructed: the configuration was complete
ClientBuilt == virus_total # None

\* the list argument of a list-taking command
ListArg == IF args.command \in {"rescan", "file-report"} THEN args.hash ELSE args.url

\* the file `name` in directory `dir`
InDir(dir, name) ==
    IF dir[Len(dir)] = "/" THEN dir \o name ELSE dir \o <<"/">> \o name

(* -------------------------------- C1 ----------------------------------- *)

\* C1: for rescan, file-report, url-scan and url-report, an invocation with 26
\* or more entries ends with exit code 1 and without any delegated call, and an
\* invocation with 1 to 25 entries (the configuration being complete) passes
\* the check: the delegated call is made and the process exits with 0.
C1_ListCeiling ==
    (Exited /\ args.command \in ListCommands) =>
        /\ Len(ListArg) >= 26 => (exitcode = 1 /\ Calls = <<>>)
        /\ (Len(ListArg) \in 1..25 /\ ClientBuilt) => (Len(Calls) = 1 /\ exitcode = 0)

C1_Witness ==
    /\ Exited /\ args.command \in ListCommands /\ ClientBuilt
    /\ Len(ListArg) = 26 /\ exitcode = 1 /\ Calls = <<>> /\ Len(Errors) = 1

(* -------------------------------- C2 ----------------------------------- *)

\* C2: for pcap and download, an output directory that does not exist ends the
\* invocation with an error before any network call: no delegated call is made
\* and no file is written, and the exit code is 1.
C2_BadOutputDir ==
    (Exited /\ args.command \in {"pcap", "download"}
            /\ args.output_dir \notin ExistingDirs) =>
        /\ exitcode = 1
        /\ Calls = <<>>
        /\ Writes = <<>>
        /\ Len(Errors) = 1
        /\ ClientBuilt => (Errors[1].prefix = "ERROR:" /\ Errors[1].arg = args.output_dir)

C2_Witness ==
    /\ Exited /\ args.command \in {"pcap", "download"} /\ ClientBuilt
    /\ args.output_dir \notin ExistingDirs
    /\ exitcode = 1 /\ events = <<Stderr("ERROR:", "'{}' is not a valid output directory",
                                         args.output_dir)>>

(* -------------------------------- C3 ----------------------------------- *)

\* C3: when the configuration file is missing, or has no apikey entry under
\* section vt, the invocation ends with exit code 1 and with an ERROR: message
\* on the error stream that names the configuration path, and the API client
\* is never constructed or called.
C3_ConfigFatal ==
    (Exited /\ conf # "ok") =>
        /\ exitcode = 1
        /\ \E i \in DOMAIN Errors :
              Errors[i].prefix = "ERROR:" /\ Errors[i].arg = expanduser(args.config)
        /\ ~ClientBuilt
        /\ Calls = <<>>

(* -------------------------------- C4 ----------------------------------- *)

\* the invocation was a download whose get-file call returned bytes
DownloadGotBytes ==
    /\ Exited /\ args.command = "download"
    /\ Calls # <<>> /\ Calls[1].op = "get_file" /\ Calls[1].result.type = "bytes"

\* C4: for download, whenever the get-file call returns bytes the events are,
\* in this order: the file named <hash> is written in the output directory,
\* the file-report call is made for that single hash, the report is printed;
\* no report call precedes the file write or names another hash.
C4_DownloadOrder ==
    /\ DownloadGotBytes =>
          /\ Len(events) = 4
          /\ events[1].type = "call"
          /\ events[2].type = "write"
          /\ events[2].path = InDir(args.output_dir, args.hash)
          /\ events[3].type = "call" /\ events[3].op = "get_file_report"
          /\ events[3].arg = args.hash
          /\ events[4].type = "stdout"
    /\ (Exited /\ args.command = "download") =>
          \A j \in DOMAIN events :
             (events[j].type = "call" /\ events[j].op = "get_file_report") =>
                /\ events[j].arg = args.hash
                /\ \E i \in 1..(j - 1) : events[i].type = "write"

C4_Witness ==
    /\ DownloadGotBytes
    /\ Len(events) = 4 /\ events[2].type = "write" /\ events[4].type = "stdout"

(* -------------------------------- C5 ----------------------------------- *)

\* one of the eleven commands with a complete configuration, list sizes
\* within 1 to 25 and an existing output directory
ValidInvocation ==
    /\ ClientBuilt
    /\ args.command \in Commands
    /\ args.command \in ListCommands => Len(ListArg) \in 1..25
    /\ args.command \in {"pcap", "download"} => args.output_dir \in ExistingDirs

\* the output actions: JSON prints and file writes
Outputs == SelectSeq(events, LAMBDA e : e.type \in {"stdout", "write"})

\* C5 as stated: every command with valid arguments performs exactly one
\* delegated call and exactly one output action before it exits.
C5_OneCallOneOutput ==
    (Exited /\ ValidInvocation) => (Len(Calls) = 1 /\ Len(Outputs) = 1)

\* C5 as amended: with valid arguments every command performs exactly one
\* delegated call and exactly one output action and exits with 0, except a
\* download whose get-file call returned bytes, which performs exactly two
\* calls (get-file, file-report) and two output actions (the file write, then
\* the report print).
C5_OneCallOneOutputButDownload ==
    (Exited /\ ValidInvocation) =>
        /\ exitcode = 0
        /\ IF DownloadGotBytes
           THEN /\ Len(Calls) = 2 /\ Calls[2].op = "get_file_report"
                /\ Len(Outputs) = 2
                /\ Outputs[1].type = "write" /\ Outputs[2].type = "stdout"
           ELSE Len(Calls) = 1 /\ Len(Outputs) = 1

C5_Witness ==
    /\ Exited /\ ValidInvocation /\ DownloadGotBytes
    /\ Len(Calls) = 2 /\ Len(Outputs) = 2

(* -------------------------------- C6 ----------------------------------- *)

DesignatedOp ==
    [c \in Commands |->
        CASE c = "file-scan" -> "scan_file"
          [] c = "rescan" -> "rescan_file"
          [] c = "file-report" -> "get_file_report"
          [] c = "behaviour" -> "get_file_behaviour"
          [] c = "pcap" -> "get_network_traffic"
          [] c = "search" -> "file_search"
          [] c = "download" -> "get_file"
          [] c = "url-scan" -> "scan_url"
          [] c = "url-report" -> "get_url_report"
          [] c = "ip-report" -> "get_ip_report"
          [] c = "domain-report" -> "get_domain_report"]

\* the single argument of a command that takes no list
SingleArg ==
    CASE args.command = "file-scan" -> args.file
      [] args.command \in {"behaviour", "pcap", "download"} -> args.hash
      [] args.command = "search" -> args.query
      [] args.command = "ip-report" -> args.ip
      [] args.command = "domain-report" -> args.domain

RECURSIVE Split(_, _)
\* the pieces of s between the occurrences of the character sep
Split(s, sep) ==
    IF \A i \in DOMAIN s : s[i] # sep THEN <<s>>
    ELSE LET i == CHOOSE k \in DOMAIN s : s[k] = sep /\ \A m \in 1..(k - 1) : s[m] # sep
         IN  <<SubSeq(s, 1, i - 1)>> \o Split(SubSeq(s, i + 1, Len(s)), sep)

C8_CallsBounded ==
    /\ Len(Calls) <= 2
    /\ Len(Calls) = 2 =>
          /\ args.command = "download"
          /\ Calls[1].op = "get_file" /\ Calls[1].result.type = "bytes"
          /\ Calls[2].op = "get_file_report"
    /\ \A i, j \in DOMAIN Calls :
          (i < j /\ Calls[i].result.type = "dict") => Calls[j].op # Calls[i].op

\* how far the process has come
PcRank ==
    CASE pc = "parse_args" -> 0
      [] pc = "parse_config" -> 1
      [] pc = "client" -> 2
      [] pc = "dispatch" -> 3
      [] pc = "exited" -> 4

\* C8: every invocation terminates (a process that has not exited can always
\* take a step, and every step brings it nearer to its exit), after at most
\* two delegated calls made one after the other; two calls occur only on the
\* download path (get-file, then file-report) and a call that returned a
\* structured error is never repeated.
C8_TerminatesWithinTwoCalls ==
    /\ [](C8_CallsBounded /\ (Exited \/ ENABLED Next))
    /\ [][PcRank' > PcRank /\ Len(Calls') <= Len(Calls) + 2]_vars

C8_Witness == Exited /\ Len(Calls) = 2 /\ exitcode = 0

(* -------------------------------- C9 ----------------------------------- *)

RECURSIVE SameValue(_, _)
\* a and b hold the same key/value pairs, whatever the order of their keys
SameValue(a, b) ==
    /\ a.type = b.type
    /\ a.type = "scalar" => a.tok = b.tok
    /\ a.type = "dict" =>
          /\ Len(a.items) = Len(b.items)
          /\ \A i \in DOMAIN a.items : \E j \in DOMAIN b.items :
                /\ a.items[i].k = b.items[j].k
                /\ SameValue(a.items[i].v, b.items[j].v)

\* the lines of a text that ends each line with a line feed
Lines(text) == Split(SubSeq(text, 1, Len(text) - 1), "LF")

\* the number of leading spaces of a line
LeadingSpaces(line) ==
    IF \A i \in DOMAIN line : line[i] = " " THEN Len(line)
    ELSE (CHOOSE k \in DOMAIN line : line[k] # " " /\ \A m \in 1..(k - 1) : line[m] = " ") - 1

\* the number of occurrences of the character c in the lines before line i
CountBefore(lines, i, c) ==
    Cardinality(UNION { { <<l, k>> : k \in {m \in DOMAIN lines[l] : lines[l][m] = c} }
                        : l \in 1..(i - 1) })

\* the line is `"key": ...`
IsKeyLine(line) == LeadingSpaces(line) < Len(line) /\ line[LeadingSpaces(line) + 1] = "\""

KeyOfLine(line) == line[LeadingSpaces(line) + 2]

\* the line closes a dict
IsClosingLine(line) == LeadingSpaces(line) < Len(line) /\ line[LeadingSpaces(line) + 1] = "}"

\* every line is indented by four spaces for each dict open around it
FourSpaceIndented(lines) ==
    \A i \in DOMAIN lines :
        LeadingSpaces(lines[i]) =
            4 * (CountBefore(lines, i, "{") - CountBefore(lines, i, "}")
                 - (IF IsClosingLine(lines[i]) THEN 1 ELSE 0))

\* the keys of each dict appear in ascending order
KeysAscending(lines) ==
    \A i, j \in DOMAIN lines :
        ( /\ i < j /\ IsKeyLine(lines[i]) /\ IsKeyLine(lines[j])
          /\ LeadingSpaces(lines[i]) = LeadingSpaces(lines[j])
          /\ \A m \in i..j : LeadingSpaces(lines[m]) >= LeadingSpaces(lines[i]) )
        => KeyRank(KeyOfLine(lines[i])) < KeyRank(KeyOfLine(lines[j]))

\* C9: everything printed to standard output is the JSON text of the value the
\* preceding delegated call returned, with the keys of every dict in ascending
\* order and four spaces of indentation per nesting level, and it is the text
\* emitted for every response that holds the same key/value pairs in another
\* key order.
C9_SortedJson ==
    \A i \in DOMAIN events :
        events[i].type = "stdout" =>
            /\ i > 1 /\ events[i - 1].type = "call"
            /\ LET r == events[i - 1].result
                   text == events[i].text
               IN  /\ r.type = "dict"
                   /\ text[Len(text)] = "LF"
                   /\ KeysAscending(Lines(text))
                   /\ FourSpaceIndented(Lines(text))
                   /\ \A r2 \in DictResponses :
                         SameValue(r, r2) => text = dumps(r2, 0) \o Newline

C9_Witness ==
    /\ Exited /\ Len(Prints) = 1 /\ Len(Calls) = 1
    /\ LET r == Calls[1].result
       IN  /\ Len(r.items) = 2
           /\ r.items[1].k = "response_code" /\ r.items[2].k = "error"
           /\ r.items[1].v.type = "dict" /\ Len(r.items[1].v.items) = 2
           /\ r.items[1].v.items[1].k = "response_code"
           /\ Len(Lines(Prints[1].text)) = 7

(* -------------------------------- C10 ---------------------------------- *)

\* the invocation ended through error()
EndedThroughError ==
    Exited /\ \E i \in DOMAIN Errors : Errors[i].prefix = "ERROR:"

\* C10: an invocation that ends through error() emits exactly one ERROR
\* message, exits with status 1 and has made no delegated call, printed
\* nothing to standard output and written no file; in particular, once the
\* downloaded file is written the follow-up file-report cannot fail its
\* batch-size check: the invocation exits with status 0 and without an error.
C10_ErrorOrEffects ==
    /\ EndedThroughError =>
          /\ Len(Errors) = 1
          /\ exitcode = 1
          /\ Calls = <<>> /\ Prints = <<>> /\ Writes = <<>>
          /\ Len(events) = 1
    /\ (Exited /\ Writes # <<>>) => (Errors = <<>> /\ exitcode = 0)

C10_Witness ==
    /\ Exited /\ args.command = "download" /\ Writes # <<>>
    /\ Len(Calls) = 2 /\ Errors = <<>> /\ exitcode = 0

====
